---- MODULE Spec2Model ----
(***************************************************************************)
(* Model of the per-connection protocol handler (class Client of           *)
(* client.py): the dispatch loop get_requests and its handlers, one worker *)
(* per session, all workers sharing the account store and the file system. *)
(* A handler is cut into steps at its calls of the shared account store,   *)
(* so that the workers' store calls interleave; each store call is atomic. *)
(***************************************************************************)
EXTENDS Integers, Sequences, FiniteSets, TLC

\* ---------------------------------------------------------------- bounds
\* what the peer of a connection sends (requests, or the end of the
\* stream): on a connection served alone, and on the first of two
\* connections served at once
MaxRequests == 3
MaxPairRequests == 1
\* and on a connection served alone whose peer has logged in
MaxTransferRequests == 3

Sessions == {1, 2}

\* ------------------------------------------------------ Python's None
None == "None"
NoName == <<>>
NoKey == 0
NoWrapped == [pub |-> None, key |-> NoKey]

\* ---------------------------------------------------------------- inputs
NUL == "NUL"
NamePayloads == {<<"a", NUL>>, <<"b", NUL>>}
FileNames == {"f", "g"}
\* bytes that are no UTF-8 text: a name payload and a file name
Undecodable == <<"xFF">>
UndecodableFile == "xFF"
PublicKeys == {"pk", "junk"}
Keys == {1, 2}
PacketNumbers == {1, 2}
Ciphertexts == {1, 2}
ContentSizes == {2}

\* the sizes on the wire, in bytes: the name field that leads the payload of
\* a public key, the sub-header of a chunk, the ciphertext of a chunk, and
\* the block of the cipher
NameFieldSize == 255
SubHeaderSize == 267
ChunkSize == 1024
BlockSize == 16
\* what recv(payload_size) returns of the payload of a chunk: all of it, or
\* a first piece that ends in the ciphertext at a block boundary, in the
\* ciphertext inside a block, or in the sub-header
Pieces == {SubHeaderSize + ChunkSize, SubHeaderSize + ChunkSize \div 2,
           SubHeaderSize + BlockSize \div 2, SubHeaderSize - 1}

\* RequestCode (codes.py); "UNKNOWN" stands for every other 16-bit value
REGISTRATION_REQUEST == "REGISTRATION_REQUEST"
RECEIVE_PUBLIC_KEY == "RECEIVE_PUBLIC_KEY"
LOGIN_REQUEST == "LOGIN_REQUEST"
SAVE_FILE_REQUEST == "SAVE_FILE_REQUEST"
FILE_TRANSFER_SUCCESS == "FILE_TRANSFER_SUCCESS"
CRC_MISMATCH == "CRC_MISMATCH"
FILE_TRANSFER_FAILED == "FILE_TRANSFER_FAILED"
UNKNOWN == "UNKNOWN"

\* ------------------------------------------------------- pure functions
\* payload.decode() raises UnicodeDecodeError on bytes that are no UTF-8 text
decode_ok(p) == p # Undecodable
file_name_decode_ok(fn) == fn # UndecodableFile

\* payload.decode()[:-1]
TrimName(p) == SubSeq(p, 1, Len(p) - 1)

\* util.string_to_uuid: the 16-byte identifier derived from the name
string_to_uuid(p) == IF p = <<"a", NUL>> THEN "id_a" ELSE "id_b"

ClientIds == {string_to_uuid(p) : p \in NamePayloads}

\* PKCS1_OAEP.new(public_key).encrypt(aes_key)
rsa_encrypt(pub, key) == [pub |-> pub, key |-> key]

\* decrypt_data: AES-CBC of a chunk under the session key with the fixed
\* iv; the plaintext depends on the chunk and on the key, and may end in
\* zero bytes. Each element stands for half a chunk
decrypt_data(key, data) == <<data, (data + key) % 2>>

\* cipher.decrypt raises ValueError on data that is no whole number of blocks
decrypt_ok(len) == len % BlockSize = 0

\* the plaintext of the first len bytes of a chunk
decrypt_piece(key, data, len) ==
  SubSeq(decrypt_data(key, data), 1, len \div (ChunkSize \div 2))

\* bytes.rstrip(b"\x00")
RECURSIVE rstrip(_)
rstrip(q) ==
  IF q = <<>> THEN <<>>
  ELSE IF q[Len(q)] = 0 THEN rstrip(SubSeq(q, 1, Len(q) - 1)) ELSE q

\* cksum.file_crc over the bytes of a file
RECURSIVE Checksum(_)
Checksum(q) == IF q = <<>> THEN 0 ELSE (3 * Checksum(Tail(q)) + Head(q) + 1) % 251

\* ------------------------------------------------------------ responses
Response(t, cid, wk, size, fn, crc) ==
  [type |-> t, client_id |-> cid, aes_key |-> wk, content_size |-> size,
   file_name |-> fn, crc |-> crc]
general_error == Response("general_error", None, NoWrapped, 0, None, 0)
failed_register == Response("failed_register", None, NoWrapped, 0, None, 0)
success_register(cid) == Response("success_register", cid, NoWrapped, 0, None, 0)
success_login(cid, wk) == Response("success_login", cid, wk, 0, None, 0)
failed_login(cid) == Response("failed_login", cid, NoWrapped, 0, None, 0)
send_aes_key(cid, wk) == Response("send_aes_key", cid, wk, 0, None, 0)
send_file_crc(cid, size, fn, crc) == Response("send_file_crc", cid, NoWrapped, size, fn, crc)
send_final_confirmation(cid) == Response("send_final_confirmation", cid, NoWrapped, 0, None, 0)

\* ------------------------------------------------------------- requests
\* the payload_size of the header of a request, in bytes; a chunk request
\* that is short declares an empty payload
PayloadSize(code, nm, pk, fn, short) ==
  CASE code \in {REGISTRATION_REQUEST, LOGIN_REQUEST} -> Len(nm)
    [] code = RECEIVE_PUBLIC_KEY -> NameFieldSize + Len(pk)
    [] code = SAVE_FILE_REQUEST -> IF short THEN 0 ELSE SubHeaderSize + ChunkSize
    [] code \in {FILE_TRANSFER_SUCCESS, CRC_MISMATCH, FILE_TRANSFER_FAILED} -> Len(fn)
    [] OTHER -> 0

\* a request as the peer sends it; payload_len is the number of bytes of
\* the payload that recv returned (line 34)
Request(code, cid, nm, pk, fn, pn, tp, size, data, short) ==
  [code |-> code, client_id |-> cid, name |-> nm, public_key |-> pk,
   file_name |-> fn, packet_number |-> pn, total_packets |-> tp,
   content_size |-> size, data |-> data, short |-> short,
   payload_size |-> PayloadSize(code, nm, pk, fn, short),
   payload_len |-> PayloadSize(code, nm, pk, fn, short)]
NoData == 0
NoRequest == Request(None, None, NoName, None, None, 0, 0, 0, NoData, FALSE)

VARIABLES
  \* Client fields, per session
  client_id, running, aes_key, name, received_packets,
  \* get_requests / handler locals and position, per session
  pc, req, encrypted_aes_key,
  \* the connection: responses sent, what the peer has yet to send
  sent, quota,
  \* the account store (database)
  clients, files,
  \* the file system
  dirs, disk,
  \* history, per session: the key of the last generate_aes_key that returned
  \* True, the number of chunks appended to a file, and the chunks appended
  \* since received_packets was last 0, as the peer sent them
  agreed_key, chunks_saved, in_flight

vars == <<client_id, running, aes_key, name, received_packets, pc, req,
          encrypted_aes_key, sent, quota, clients, files, dirs, disk,
          agreed_key, chunks_saved, in_flight>>

\* Client.__init__ for every accepted connection. The store and the disk
\* are those of a server that has served before: the account of name "a"
\* is registered and has sent its public key, and its directory holds the
\* file "g"; the name "b" is free
InitState ==
  /\ client_id = [s \in Sessions |-> None]
  /\ running = [s \in Sessions |-> TRUE]
  /\ aes_key = [s \in Sessions |-> NoKey]
  /\ name = [s \in Sessions |-> NoName]
  /\ received_packets = [s \in Sessions |-> 0]
  /\ pc = [s \in Sessions |-> "recv"]
  /\ req = [s \in Sessions |-> NoRequest]
  /\ encrypted_aes_key = [s \in Sessions |-> NoWrapped]
  /\ sent = [s \in Sessions |-> <<>>]
  /\ clients = ("id_a" :> [name |-> <<"a", NUL>>, public_key |-> "pk",
                            aes_key |-> NoWrapped, last_seen |-> 0])
  /\ files = <<>>
  /\ dirs = {<<"a">>}
  /\ disk = (<<<<"a">>, "g">> :> <<7>>)
  /\ agreed_key = [s \in Sessions |-> NoKey]
  /\ chunks_saved = [s \in Sessions |-> 0]
  /\ in_flight = [s \in Sessions |-> <<>>]

\* one connection served alone
Init == InitState /\ quota = [s \in Sessions |-> IF s = 1 THEN MaxRequests ELSE 0]
\* two connections served at once, the second peer sending once
InitPair == InitState /\ quota = [s \in Sessions |-> IF s = 1 THEN MaxPairRequests ELSE 1]

\* one connection served alone, after its peer logged in as "a" and the key
\* exchange of that login (lines 83-94) delivered the key 1
InitTransfer ==
  LET wrapped == rsa_encrypt("pk", 1) IN
  /\ client_id = [s \in Sessions |-> IF s = 1 THEN "id_a" ELSE None]
  /\ running = [s \in Sessions |-> TRUE]
  /\ aes_key = [s \in Sessions |-> IF s = 1 THEN 1 ELSE NoKey]
  /\ name = [s \in Sessions |-> IF s = 1 THEN <<"a">> ELSE NoName]
  /\ received_packets = [s \in Sessions |-> 0]
  /\ pc = [s \in Sessions |-> "recv"]
  /\ req = [s \in Sessions |->
              IF s = 1
                THEN Request(LOGIN_REQUEST, "id_a", <<"a", NUL>>, None, None, 0, 0, 0,
                             NoData, FALSE)
                ELSE NoRequest]
  /\ encrypted_aes_key = [s \in Sessions |-> IF s = 1 THEN wrapped ELSE NoWrapped]
  /\ sent = [s \in Sessions |-> IF s = 1 THEN <<success_login("id_a", wrapped)>> ELSE <<>>]
  /\ clients = ("id_a" :> [name |-> <<"a", NUL>>, public_key |-> "pk",
                            aes_key |-> wrapped, last_seen |-> 1])
  /\ files = <<>>
  /\ dirs = {<<"a">>}
  /\ disk = (<<<<"a">>, "g">> :> <<7>>)
  /\ agreed_key = [s \in Sessions |-> IF s = 1 THEN 1 ELSE NoKey]
  /\ chunks_saved = [s \in Sessions |-> 0]
  /\ in_flight = [s \in Sessions |-> <<>>]
  /\ quota = [s \in Sessions |-> IF s = 1 THEN MaxTransferRequests ELSE 0]

\* ------------------------------------------------------- account store
\* clients: client id -> row; files: the file records, in insertion order
Row(nm) == [name |-> nm, public_key |-> None, aes_key |-> NoWrapped, last_seen |-> 0]

\* database.client_exists(name): True / False (None is the caller's choice)
client_exists(nm) == \E c \in DOMAIN clients : clients[c].name = nm

\* database.client_exists_by_id(id, name)
client_exists_by_id(cid, nm) == cid \in DOMAIN clients /\ clients[cid].name = nm

\* database.register_client(id, name): the row inserted; an id already
\* present is refused
register_client_ok(cid) == cid \notin DOMAIN clients
register_client(cid, nm) == (cid :> Row(nm)) @@ clients

\* database.add_public_key / add_aes_key / update_last_seen: update of the
\* row of that id, no row touched when the id is unknown
add_public_key(cid, pk) ==
  IF cid \in DOMAIN clients THEN [clients EXCEPT ![cid].public_key = pk] ELSE clients
add_aes_key(cid, wk) ==
  IF cid \in DOMAIN clients THEN [clients EXCEPT ![cid].aes_key = wk] ELSE clients
update_last_seen(cid) ==
  IF cid \in DOMAIN clients THEN [clients EXCEPT ![cid].last_seen = @ + 1] ELSE clients

\* database.get_public_key / get_aes_key: None for an unknown id or unset column
get_public_key(cid) == IF cid \in DOMAIN clients THEN clients[cid].public_key ELSE None
get_aes_key(cid) == IF cid \in DOMAIN clients THEN clients[cid].aes_key ELSE NoWrapped

\* database.save_file(id, file_name, path, verified)
save_file(cid, fn, path, ok) ==
  Append(files, [client_id |-> cid, file_name |-> fn, path |-> path, verified |-> ok])

\* ---------------------------------------------------------- file system
\* os.path.join(self.name, file_name)
Path(dir, fn) == <<dir, fn>>
path_exists(p) == p \in DOMAIN disk
Remove(p) == [q \in (DOMAIN disk) \ {p} |-> disk[q]]

\* ------------------------------------------------------- the read loop
\* get_requests, line 24: the loop goes on while self.running; the peer
\* has something left to send
CanRecv(s) == pc[s] = "recv" /\ running[s] /\ quota[s] > 0

\* lines 26-34: a header is received and unpacked, then the payload
Recv(s, r) ==
  /\ req' = [req EXCEPT ![s] = r]
  /\ quota' = [quota EXCEPT ![s] = @ - 1]

\* line 33: the header's client id is unpacked into self.client_id
HeaderClientId_local(old, h) == old
HeaderClientId(old, h) == h

Send(s, m) == sent' = [sent EXCEPT ![s] = Append(@, m)]

\* the value of self.running decides whether the loop goes on
Loop(s, run) ==
  /\ running' = [running EXCEPT ![s] = run]
  /\ pc' = [pc EXCEPT ![s] = IF run THEN "recv" ELSE "closed"]

\* an exception no except clause catches ends the worker: nothing is sent
\* and self.running keeps its value
Crash(s) == pc' = [pc EXCEPT ![s] = "crashed"]

\* lines 26-38: an empty read, a short header or a connection error while
\* the header is awaited; or a connection error while the payload is
\* awaited, after the header was unpacked (line 33)
\* lines 27-29 and 35-38: running is cleared and get_requests returns
EndSilently_answers(s) == Send(s, general_error) /\ Loop(s, FALSE)
EndSilently(s) == UNCHANGED sent /\ Loop(s, FALSE)

TransportFault(s) ==
  /\ CanRecv(s)
  /\ \/ /\ Recv(s, NoRequest)
        /\ UNCHANGED client_id
     \/ \E h \in ClientIds :
          /\ Recv(s, Request(None, h, NoName, None, None, 0, 0, 0, NoData, FALSE))
          /\ client_id' = [client_id EXCEPT ![s] = HeaderClientId(@, h)]
  /\ EndSilently(s)
  /\ UNCHANGED <<aes_key, name, received_packets, encrypted_aes_key,
                 clients, files, dirs, disk, agreed_key, chunks_saved, in_flight>>

\* lines 57-58: the answer of the default arm
DefaultArm_goes_on(s) == Send(s, general_error) /\ UNCHANGED <<running, pc>>
DefaultArm(s) == Send(s, general_error) /\ Loop(s, FALSE)

\* lines 55-58: a request code that is none of RequestCode
UnknownCode(s) ==
  /\ CanRecv(s)
  /\ \E h \in ClientIds :
       /\ Recv(s, Request(UNKNOWN, h, NoName, None, None, 0, 0, 0, NoData, FALSE))
       /\ client_id' = [client_id EXCEPT ![s] = HeaderClientId(@, h)]
       /\ DefaultArm(s)
  /\ UNCHANGED <<aes_key, name, received_packets, encrypted_aes_key,
                 clients, files, dirs, disk, agreed_key, chunks_saved, in_flight>>

\* lines 50-52: CRC_MISMATCH, the payload names the file; the message
\* printed decodes the payload, outside every try
CrcMismatch(s) ==
  /\ CanRecv(s)
  /\ \E h \in ClientIds, fn \in {"f", UndecodableFile} :
       /\ Recv(s, Request(CRC_MISMATCH, h, NoName, None, fn, 0, 0, 0, NoData, FALSE))
       /\ client_id' = [client_id EXCEPT ![s] = HeaderClientId(@, h)]
       /\ IF file_name_decode_ok(fn) THEN UNCHANGED pc ELSE Crash(s)
  /\ UNCHANGED <<running, aes_key, name, received_packets,
                 encrypted_aes_key, sent, clients, files, dirs, disk,
                 agreed_key, chunks_saved, in_flight>>

\* ------------------------------------------------------ handle_register
\* lines 66-68: the name is taken
RefuseRegistration_goes_on(s) == Send(s, failed_register) /\ UNCHANGED <<running, pc>>
RefuseRegistration(s) == Send(s, failed_register) /\ Loop(s, FALSE)

\* lines 61-70: database.client_exists(payload) and its three outcomes
handle_register(s) ==
  /\ CanRecv(s)
  /\ \E h \in ClientIds, nm \in NamePayloads \cup {Undecodable}, db_ok \in BOOLEAN :
       /\ ~decode_ok(nm) => db_ok
       /\ Recv(s, Request(REGISTRATION_REQUEST, h, nm, None, None, 0, 0, 0, NoData, FALSE))
       /\ IF ~db_ok
            THEN /\ client_id' = [client_id EXCEPT ![s] = HeaderClientId(@, h)]
                 /\ Send(s, general_error)
                 /\ UNCHANGED <<running, pc>>
            ELSE IF client_exists(nm)
              THEN /\ client_id' = [client_id EXCEPT ![s] = HeaderClientId(@, h)]
                   /\ RefuseRegistration(s)
              ELSE IF ~decode_ok(nm)
                \* line 70, payload.decode(): UnicodeDecodeError
                THEN /\ client_id' = [client_id EXCEPT ![s] = HeaderClientId(@, h)]
                     /\ Crash(s)
                     /\ UNCHANGED <<running, sent>>
                ELSE /\ client_id' = [client_id EXCEPT ![s] = string_to_uuid(nm)]
                     /\ pc' = [pc EXCEPT ![s] = "register_client"]
                     /\ UNCHANGED <<running, sent>>
  /\ UNCHANGED <<aes_key, name, received_packets, encrypted_aes_key,
                 clients, files, dirs, disk, agreed_key, chunks_saved, in_flight>>

\* lines 71-76: database.register_client(self.client_id, payload)
handle_register_create(s) ==
  /\ pc[s] = "register_client"
  /\ \E db_ok \in BOOLEAN :
       IF db_ok /\ register_client_ok(client_id[s])
         THEN /\ clients' = register_client(client_id[s], req[s].name)
              /\ name' = [name EXCEPT ![s] = TrimName(req[s].name)]
              /\ Send(s, success_register(client_id[s]))
         ELSE /\ Send(s, general_error)
              /\ UNCHANGED <<clients, name>>
  /\ pc' = [pc EXCEPT ![s] = "recv"]
  /\ UNCHANGED <<client_id, running, aes_key, received_packets, req,
                 encrypted_aes_key, quota, files, dirs, disk, agreed_key,
                 chunks_saved, in_flight>>

\* --------------------------------------------------------- handle_login
\* lines 83-85: the name is stored when the account matches
LoginName_eager(old, nm, exists) == TrimName(nm)
LoginName(old, nm, exists) == IF exists THEN TrimName(nm) ELSE old

\* lines 95-98: no account of that id and name
RefuseLogin_ends(s, cid) == Send(s, failed_login(cid)) /\ Loop(s, FALSE)
RefuseLogin(s, cid) == Send(s, failed_login(cid)) /\ UNCHANGED <<running, pc>>

\* lines 79-87 and 95-98: database.client_exists_by_id(self.client_id, name)
handle_login(s) ==
  /\ CanRecv(s)
  /\ \E h \in ClientIds, nm \in NamePayloads \cup {Undecodable}, db_ok \in BOOLEAN :
       LET exists == decode_ok(nm) /\ db_ok /\ client_exists_by_id(h, nm) IN
       /\ ~decode_ok(nm) => db_ok
       /\ Recv(s, Request(LOGIN_REQUEST, h, nm, None, None, 0, 0, 0, NoData, FALSE))
       /\ client_id' = [client_id EXCEPT ![s] = HeaderClientId(@, h)]
       /\ name' = [name EXCEPT ![s] = LoginName(@, nm, exists)]
       /\ IF ~decode_ok(nm)
            \* line 79, payload.decode(): UnicodeDecodeError
            THEN /\ Crash(s)
                 /\ UNCHANGED <<running, sent>>
            ELSE IF ~db_ok
              THEN /\ Send(s, general_error)
                   /\ UNCHANGED <<running, pc>>
              ELSE IF exists
                THEN /\ pc' = [pc EXCEPT ![s] = "get_public_key"]
                     /\ UNCHANGED <<running, sent>>
                ELSE RefuseLogin(s, h)
  /\ UNCHANGED <<aes_key, received_packets, encrypted_aes_key,
                 clients, files, dirs, disk, agreed_key, chunks_saved, in_flight>>

\* ---------------------------------------------------- handle_public_key
\* lines 101-107: database.add_public_key(self.client_id, payload[255:])
handle_public_key(s) ==
  /\ CanRecv(s)
  /\ \E h \in ClientIds, pk \in PublicKeys, db_ok \in BOOLEAN :
       /\ Recv(s, Request(RECEIVE_PUBLIC_KEY, h, NoName, pk, None, 0, 0, 0, NoData, FALSE))
       /\ client_id' = [client_id EXCEPT ![s] = HeaderClientId(@, h)]
       /\ IF db_ok
            THEN /\ clients' = add_public_key(h, pk)
                 /\ pc' = [pc EXCEPT ![s] = "get_public_key"]
                 /\ UNCHANGED sent
            ELSE /\ Send(s, general_error)
                 /\ UNCHANGED <<clients, pc>>
  /\ UNCHANGED <<running, aes_key, name, received_packets,
                 encrypted_aes_key, files, dirs, disk, agreed_key, chunks_saved, in_flight>>

\* ----------------------------------------------------- generate_aes_key
\* RSA.importKey raises ValueError on a blob that is no RSA key
import_key_ok(pk) == pk # "junk"

\* lines 121-122: self.aes_key is the key just drawn, whatever it was
NewKey_kept(old, k) == old
NewKey(old, k) == k

\* lines 116-124: database.get_public_key, then the fresh key is stored in
\* self.aes_key and wrapped
generate_aes_key(s) ==
  /\ pc[s] = "get_public_key"
  /\ \E db_ok \in BOOLEAN :
       LET public_key == IF db_ok THEN get_public_key(client_id[s]) ELSE None IN
       IF public_key = None
         THEN /\ Send(s, general_error)
              /\ pc' = [pc EXCEPT ![s] = "recv"]
              /\ UNCHANGED <<aes_key, encrypted_aes_key>>
         ELSE IF ~import_key_ok(public_key)
           THEN /\ Crash(s)
                /\ UNCHANGED <<aes_key, encrypted_aes_key, sent>>
           ELSE \E k \in Keys :
                  /\ aes_key' = [aes_key EXCEPT ![s] = NewKey(@, k)]
                  /\ encrypted_aes_key' =
                       [encrypted_aes_key EXCEPT ![s] = rsa_encrypt(public_key, k)]
                  /\ pc' = [pc EXCEPT ![s] = "add_aes_key"]
                  /\ UNCHANGED sent
  /\ UNCHANGED <<client_id, running, name, received_packets, req, quota,
                 clients, files, dirs, disk, agreed_key, chunks_saved, in_flight>>

\* lines 125-129: database.add_aes_key(self.client_id, encrypted_aes_key);
\* True is returned when it succeeded
generate_aes_key_persist(s) ==
  /\ pc[s] = "add_aes_key"
  /\ \E db_ok \in BOOLEAN :
       IF db_ok
         THEN /\ clients' = add_aes_key(client_id[s], encrypted_aes_key[s])
              /\ pc' = [pc EXCEPT ![s] = "get_aes_key"]
              /\ agreed_key' = [agreed_key EXCEPT ![s] = aes_key[s]]
              /\ UNCHANGED sent
         ELSE /\ Send(s, general_error)
              /\ pc' = [pc EXCEPT ![s] = "recv"]
              /\ UNCHANGED <<clients, agreed_key>>
  /\ UNCHANGED <<client_id, running, aes_key, name, received_packets, req,
                 encrypted_aes_key, quota, files, dirs, disk, chunks_saved, in_flight>>

\* lines 88-94 (handle_login) and 108-113 (handle_public_key):
\* database.get_aes_key, the answer, and for a login update_last_seen
deliver_aes_key(s) ==
  /\ pc[s] = "get_aes_key"
  /\ \E db_ok \in BOOLEAN :
       LET wrapped == IF db_ok THEN get_aes_key(client_id[s]) ELSE NoWrapped IN
       IF wrapped = NoWrapped
         THEN /\ Send(s, general_error)
              /\ UNCHANGED clients
         ELSE IF req[s].code = LOGIN_REQUEST
           THEN /\ Send(s, success_login(client_id[s], wrapped))
                /\ clients' = update_last_seen(client_id[s])
           ELSE /\ Send(s, send_aes_key(client_id[s], wrapped))
                /\ UNCHANGED clients
  /\ pc' = [pc EXCEPT ![s] = "recv"]
  /\ UNCHANGED <<client_id, running, aes_key, name, received_packets, req,
                 encrypted_aes_key, quota, files, dirs, disk, agreed_key,
                 chunks_saved, in_flight>>


\* ----------------------------------------------------- handle_save_file
\* lines 174-181: handle_file_crc; crc is the digest or None
handle_file_crc(s, cid, fn, size, crc_ok, content) ==
  IF crc_ok
    THEN /\ Send(s, send_file_crc(cid, size, fn, Checksum(content)))
         /\ UNCHANGED <<running, pc>>
    ELSE /\ Send(s, general_error)
         /\ Loop(s, FALSE)

\* lines 164-167: the except clause of handle_save_file
SaveFailed_goes_on(s) == Send(s, general_error) /\ UNCHANGED <<running, pc>>
SaveFailed(s) == Send(s, general_error) /\ Loop(s, FALSE)

\* lines 157-161: the counter after one more packet
CountPacket_reset_late(n, total) == IF n + 1 >= total THEN 0 ELSE n + 1
CountPacket(n, total) == IF n + 1 = total THEN 0 ELSE n + 1

\* lines 150-154: the file after the packet is appended; the file is
\* deleted first when the counter is 0
Appended(path, n, plain) ==
  LET old == IF n = 0 \/ ~path_exists(path) THEN <<>> ELSE disk[path] IN
  (path :> (old \o plain)) @@ disk

\* lines 136 and 145-148: the ciphertext is what the payload holds after
\* the sub-header; the decrypted chunk is stripped when it is the last packet
Plain(key, r) ==
  LET decrypted_data == decrypt_piece(key, r.data, r.payload_len - SubHeaderSize) IN
  IF r.packet_number = r.total_packets THEN rstrip(decrypted_data) ELSE decrypted_data

\* lines 131-167. io names the file-system call that raises OSError, if
\* any. What is not read of a request is not varied, and a call that is not
\* reached does not fail
handle_save_file(s) ==
  /\ CanRecv(s)
  /\ \E h \in ClientIds, short \in BOOLEAN :
     \E piece \in IF short THEN {SubHeaderSize + ChunkSize}
                  ELSE IF name[s] = NoName \/ aes_key[s] = NoKey
                    THEN {SubHeaderSize + ChunkSize, SubHeaderSize - 1}
                    ELSE Pieces :
     \E fn \in IF short \/ piece < SubHeaderSize THEN {"f"}
               ELSE IF piece = SubHeaderSize + ChunkSize
                 THEN FileNames \cup {UndecodableFile}
                 ELSE FileNames :
     LET struct_error == short \/ piece < SubHeaderSize
         value_error == ~struct_error /\ ~decrypt_ok(piece - SubHeaderSize)
         unread == struct_error \/ ~file_name_decode_ok(fn)
         \* the handler ends before it touches the file system
         early == unread \/ name[s] = NoName
     IN
     \E pn \in IF unread THEN {1} ELSE PacketNumbers,
        tp \in IF unread THEN {1} ELSE PacketNumbers,
        size \in ContentSizes,
        data \in IF unread \/ value_error THEN {1}
                  ELSE IF piece < SubHeaderSize + ChunkSize THEN {2} ELSE Ciphertexts,
        io \in IF early THEN {"ok"}
               ELSE {"ok"} \cup (IF name[s] \in dirs THEN {} ELSE {"makedirs"})
                           \cup (IF aes_key[s] = NoKey \/ value_error THEN {} ELSE {"open"}) :
     \E crc_ok \in IF io = "ok" /\ ~early /\ aes_key[s] # NoKey /\ ~value_error
                        /\ received_packets[s] + 1 = tp
                     THEN BOOLEAN ELSE {TRUE} :
       LET r == IF short
                  THEN Request(SAVE_FILE_REQUEST, h, NoName, None, None, 0, 0, 0, NoData, TRUE)
                  ELSE [Request(SAVE_FILE_REQUEST, h, NoName, None, fn, pn, tp, size, data, FALSE)
                          EXCEPT !.payload_len = piece]
           file_path == Path(name[s], fn)
           after == Appended(file_path, received_packets[s], Plain(aes_key[s], r))
           sent_chunk == [file_name |-> fn, packet_number |-> pn, total_packets |-> tp,
                          plain |-> decrypt_data(aes_key[s], data),
                          stale |-> path_exists(file_path)]
       IN
       \* packets are numbered from 1 up to the declared total
       /\ pn <= tp
       /\ Recv(s, r)
       /\ client_id' = [client_id EXCEPT ![s] = HeaderClientId(@, h)]
       /\ IF struct_error
            \* struct.error: the payload is shorter than the 267-byte sub-header
            THEN /\ SaveFailed(s)
                 /\ UNCHANGED <<received_packets, dirs, disk, chunks_saved, in_flight>>
            ELSE IF ~file_name_decode_ok(fn) \/ name[s] = NoName
              \* file_name.decode(): UnicodeDecodeError;
              \* os.path.join(None, file_name): TypeError
              THEN /\ Crash(s)
                   /\ UNCHANGED <<running, sent, received_packets, dirs, disk,
                                  chunks_saved, in_flight>>
              ELSE IF io = "makedirs"
                THEN /\ SaveFailed(s)
                     /\ UNCHANGED <<received_packets, dirs, disk, chunks_saved, in_flight>>
                ELSE IF aes_key[s] = NoKey \/ value_error
                  \* AES.new(None, ...): TypeError; cipher.decrypt: ValueError;
                  \* both after the directory is made
                  THEN /\ dirs' = dirs \cup {name[s]}
                       /\ Crash(s)
                       /\ UNCHANGED <<running, sent, received_packets, disk,
                                      chunks_saved, in_flight>>
                  ELSE IF io = "open"
                    THEN /\ dirs' = dirs \cup {name[s]}
                         /\ disk' = IF received_packets[s] = 0 /\ path_exists(file_path)
                                      THEN Remove(file_path) ELSE disk
                         /\ SaveFailed(s)
                         /\ UNCHANGED <<received_packets, chunks_saved, in_flight>>
                    ELSE /\ dirs' = dirs \cup {name[s]}
                         /\ disk' = after
                         /\ chunks_saved' = [chunks_saved EXCEPT ![s] = @ + 1]
                         /\ received_packets' =
                              [received_packets EXCEPT ![s] = CountPacket(@, tp)]
                         /\ in_flight' =
                              [in_flight EXCEPT ![s] =
                                 IF CountPacket(received_packets[s], tp) = 0
                                   THEN <<>> ELSE Append(@, sent_chunk)]
                         /\ IF received_packets[s] + 1 = tp
                              THEN handle_file_crc(s, client_id'[s], fn, size, crc_ok,
                                                   after[file_path])
                              ELSE UNCHANGED <<running, pc, sent>>
  /\ UNCHANGED <<aes_key, name, encrypted_aes_key, clients, files, agreed_key>>

\* ------------------------------------------------------- the outcomes
\* lines 189-191 and 204-206: the final confirmation ends the session
Confirm_goes_on(s, cid) == Send(s, send_final_confirmation(cid)) /\ UNCHANGED <<running, pc>>
Confirm(s, cid) == Send(s, send_final_confirmation(cid)) /\ Loop(s, FALSE)

\* lines 183-191
handle_transfer_success(s) ==
  /\ CanRecv(s)
  /\ \E h \in ClientIds, fn \in FileNames \cup {UndecodableFile}, db_ok \in BOOLEAN :
       /\ (name[s] = NoName \/ ~file_name_decode_ok(fn)) => db_ok
       /\ Recv(s, Request(FILE_TRANSFER_SUCCESS, h, NoName, None, fn, 0, 0, 0, NoData, FALSE))
       /\ client_id' = [client_id EXCEPT ![s] = HeaderClientId(@, h)]
       /\ IF ~file_name_decode_ok(fn) \/ name[s] = NoName
            \* payload.decode(): UnicodeDecodeError;
            \* os.path.join(None, file_name): TypeError
            THEN /\ Crash(s)
                 /\ UNCHANGED <<running, sent, files>>
            ELSE IF db_ok
              THEN /\ files' = save_file(client_id'[s], fn, Path(name[s], fn), TRUE)
                   /\ Confirm(s, client_id'[s])
              ELSE /\ Send(s, general_error)
                   /\ UNCHANGED <<running, pc, files>>
  /\ UNCHANGED <<aes_key, name, received_packets, encrypted_aes_key,
                 clients, dirs, disk, agreed_key, chunks_saved, in_flight>>

\* lines 193-206
handle_transfer_failed(s) ==
  /\ CanRecv(s)
  /\ \E h \in ClientIds, fn \in FileNames \cup {UndecodableFile}, db_ok \in BOOLEAN :
       LET file_path == Path(name[s], fn)
           removed == IF path_exists(file_path) THEN Remove(file_path) ELSE disk
           listdir == {p \in DOMAIN removed : p[1] = name[s]}
       IN
       /\ (name[s] = NoName \/ name[s] \notin dirs \/ ~file_name_decode_ok(fn)) => db_ok
       /\ Recv(s, Request(FILE_TRANSFER_FAILED, h, NoName, None, fn, 0, 0, 0, NoData, FALSE))
       /\ client_id' = [client_id EXCEPT ![s] = HeaderClientId(@, h)]
       /\ IF ~file_name_decode_ok(fn) \/ name[s] = NoName
            \* payload.decode(): UnicodeDecodeError;
            \* os.path.join(None, file_name): TypeError
            THEN /\ Crash(s)
                 /\ UNCHANGED <<running, sent, files, dirs, disk>>
            ELSE IF name[s] \notin dirs
              \* os.listdir of a directory that does not exist: FileNotFoundError
              THEN /\ Crash(s)
                   /\ UNCHANGED <<running, sent, files, dirs, disk>>
              ELSE /\ disk' = removed
                   /\ dirs' = IF listdir = {} THEN dirs \ {name[s]} ELSE dirs
                   /\ IF db_ok
                        THEN /\ files' = save_file(client_id'[s], fn, file_path, FALSE)
                             /\ Confirm(s, client_id'[s])
                        ELSE /\ Send(s, general_error)
                             /\ UNCHANGED <<running, pc, files>>
  /\ UNCHANGED <<aes_key, name, received_packets, encrypted_aes_key, clients,
                 agreed_key, chunks_saved, in_flight>>

\* ------------------------------------------------------- specification
Next ==
  \E s \in Sessions :
    \/ TransportFault(s)
    \/ UnknownCode(s)
    \/ CrcMismatch(s)
    \/ handle_register(s)
    \/ handle_register_create(s)
    \/ handle_login(s)
    \/ handle_public_key(s)
    \/ generate_aes_key(s)
    \/ generate_aes_key_persist(s)
    \/ deliver_aes_key(s)
    \/ handle_save_file(s)
    \/ handle_transfer_success(s)
    \/ handle_transfer_failed(s)

Spec == Init /\ [][Next]_vars
SpecPair == InitPair /\ [][Next]_vars
SpecTransfer == InitTransfer /\ [][Next]_vars


\* ------------------------------------------------------------ the claims
\* session s parsed a request of that code in this step
Parsed(s, code) == quota'[s] = quota[s] - 1 /\ req'[s].code = code
\* session s unpacked a header in this step
Unpacked(s) == quota'[s] = quota[s] - 1 /\ req'[s].client_id # None
\* session s sent exactly the response m in this step
Answered(s, m) == sent'[s] = Append(sent[s], m)
\* session s sent a response of that type in this step
AnsweredType(s, type) ==
  Len(sent'[s]) = Len(sent[s]) + 1 /\ sent'[s][Len(sent'[s])].type = type
\* session s has sent a response of that type
HasSent(s, type) == \E i \in DOMAIN sent[s] : sent[s][i].type = type
\* nothing of session s changes in this step: no request is read or handled
Frozen(s) ==
  /\ client_id'[s] = client_id[s] /\ running'[s] = running[s]
  /\ aes_key'[s] = aes_key[s] /\ name'[s] = name[s]
  /\ received_packets'[s] = received_packets[s] /\ pc'[s] = pc[s]
  /\ req'[s] = req[s] /\ encrypted_aes_key'[s] = encrypted_aes_key[s]
  /\ sent'[s] = sent[s] /\ quota'[s] = quota[s]

\* C1: in every session a chunk is saved only after a key exchange
\* succeeded in that session, and a transfer outcome (a file record) is
\* recorded only after a crc report was sent in that session.
C1_HandledInOrder ==
  [][\A s \in Sessions :
       /\ chunks_saved'[s] # chunks_saved[s] => agreed_key[s] # NoKey
       /\ (quota'[s] < quota[s] /\ Len(files') > Len(files)) => HasSent(s, "send_file_crc")
    ]_vars

\* C2: an unrecognized request code, in whatever state the session is, is
\* answered with exactly one general error and sets running to false, and
\* from then on nothing of the session changes: no request is read or handled.
C2_UnknownCodeEndsSession ==
  [][\A s \in Sessions :
       /\ Parsed(s, UNKNOWN) => (Answered(s, general_error) /\ ~running'[s])
       /\ req[s].code = UNKNOWN => Frozen(s)
    ]_vars

\* C2: a session that had logged in and negotiated a key was ended by an
\* unrecognized code while its peer had more to send
C2_Witness ==
  \E s \in Sessions :
    /\ req[s].code = UNKNOWN /\ ~running[s] /\ quota[s] > 0
    /\ name[s] # NoName /\ aes_key[s] # NoKey
    /\ sent[s][Len(sent[s])] = general_error

\* C3: between two steps of a key exchange excepted, aes_key is the key of
\* the last key exchange that succeeded: a key exchange that fails leaves
\* aes_key as it was before the attempt.
C3_KeyOnlyFromSuccessfulExchange ==
  \A s \in Sessions : pc[s] # "add_aes_key" => aes_key[s] = agreed_key[s]

\* C4 as stated: once a name is stored, no later request changes it.
C4_NameImmutable ==
  [][\A s \in Sessions : name[s] # NoName => name'[s] = name[s]]_vars

\* C4 as amended: name changes only when a registration succeeds or when a
\* login matches an account, and is then the trimmed name of that request,
\* also when a name was stored before; every other step leaves it unchanged.
C4_NameSetByRegisterOrLogin ==
  [][\A s \in Sessions :
       name'[s] # name[s] =>
         /\ name'[s] = SubSeq(req'[s].name, 1, Len(req'[s].name) - 1)
         /\ \/ pc[s] = "register_client" /\ Answered(s, success_register(client_id[s]))
            \/ Parsed(s, LOGIN_REQUEST) /\ pc'[s] = "get_public_key"
    ]_vars

\* C4: a session that registered the name "b" now has the name "a"
C4_Witness ==
  \E s \in Sessions :
    /\ name[s] = <<"a">>
    /\ \E i \in DOMAIN sent[s] : sent[s][i] = success_register("id_b")

\* C5 as stated: client_id changes only when a LOGIN_REQUEST is parsed or
\* when a registration derives the id from the name; a request of any
\* other code leaves it unchanged.
C5_ClientIdOnlyByRegisterOrLogin ==
  [][\A s \in Sessions :
       client_id'[s] # client_id[s] =>
         \/ Parsed(s, LOGIN_REQUEST)
         \/ Parsed(s, REGISTRATION_REQUEST) /\ client_id'[s] = string_to_uuid(req'[s].name)
    ]_vars

\* C5 as amended: every header that is unpacked, whatever its request code,
\* assigns its client id to client_id, except that a registration whose
\* lookup finds the name free assigns the id derived from the name; no
\* other step changes client_id.
C5_ClientIdFromEveryHeader ==
  [][\A s \in Sessions :
       IF Unpacked(s)
         THEN client_id'[s] =
                IF req'[s].code = REGISTRATION_REQUEST /\ pc'[s] = "register_client"
                  THEN string_to_uuid(req'[s].name)
                  ELSE req'[s].client_id
         ELSE client_id'[s] = client_id[s]
    ]_vars

\* C5: a session that registered "b" has the client id of "a" after a
\* CRC_MISMATCH request
C5_Witness ==
  \E s \in Sessions :
    /\ req[s].code = CRC_MISMATCH /\ client_id[s] = "id_a"
    /\ \E i \in DOMAIN sent[s] : sent[s][i] = success_register("id_b")

\* the registration request of session s is answered in this step
RegistrationAnswered(s) ==
  req'[s].code = REGISTRATION_REQUEST /\ Len(sent'[s]) = Len(sent[s]) + 1
\* no account changes its name or disappears in this step
AccountsKept ==
  \A c \in DOMAIN clients : c \in DOMAIN clients' /\ clients'[c].name = clients[c].name

\* C6 as stated: a registration request answered when an account of its
\* name exists is answered with failed_register and ends its session, and
\* the existing accounts keep their identifiers.
C6_SecondRegistrationRefused ==
  [][/\ \A s \in Sessions :
          (RegistrationAnswered(s) /\ client_exists(req'[s].name)) =>
            (Answered(s, failed_register) /\ ~running'[s])
     /\ AccountsKept
    ]_vars

\* C6 as amended: a registration request whose lookup runs when an account
\* of its name exists is answered with failed_register and ends its
\* session, or, when the lookup fails, with a general error and the session
\* goes on; failed_register is sent in no other case; the existing accounts
\* keep their identifiers.
C6_RegistrationOfTakenName ==
  [][/\ \A s \in Sessions :
          /\ (Parsed(s, REGISTRATION_REQUEST) /\ client_exists(req'[s].name)) =>
               \/ Answered(s, failed_register) /\ ~running'[s] /\ pc'[s] = "closed"
               \/ Answered(s, general_error) /\ running'[s] /\ pc'[s] = "recv"
          /\ AnsweredType(s, "failed_register") =>
               (Parsed(s, REGISTRATION_REQUEST) /\ client_exists(req'[s].name))
     /\ AccountsKept
    ]_vars

\* C6: one session registered "b", and the registration of "b" by the other
\* session was refused and ended it
C6_Witness ==
  \E s \in Sessions, o \in Sessions :
    /\ s # o
    /\ \E i \in DOMAIN sent[s] : sent[s][i] = success_register("id_b")
    /\ req[o].code = REGISTRATION_REQUEST /\ req[o].name = <<"b", NUL>>
    /\ sent[o] = <<failed_register>> /\ ~running[o]

\* C7: a general error ends the session exactly when the chunk-save path
\* (crc computation included) or the default arm sent it; after a general
\* error of any other handler running is true and the loop reads on.
C7_GeneralErrorFatality ==
  [][\A s \in Sessions :
       AnsweredType(s, "general_error") =>
         /\ running'[s] = (req'[s].code \notin {SAVE_FILE_REQUEST, UNKNOWN})
         /\ pc'[s] = IF running'[s] THEN "recv" ELSE "closed"
    ]_vars

\* C7: a session went on after a general error and was ended by the general
\* error of a chunk that could not be saved
C7_Witness ==
  \E s \in Sessions :
    /\ Len(sent[s]) >= 2 /\ sent[s][1] = general_error
    /\ sent[s][Len(sent[s])] = general_error
    /\ req[s].code = SAVE_FILE_REQUEST /\ ~req[s].short /\ ~running[s]

\* C8 as stated: received_packets counts the packets of the file in flight:
\* it is 0 when a packet numbered 1, or a packet of another file than the
\* previous packet's, is processed.
C8_CountOfFileInFlight ==
  [][\A s \in Sessions :
       chunks_saved'[s] # chunks_saved[s] =>
         /\ req'[s].packet_number = 1 => received_packets[s] = 0
         /\ (req[s].code = SAVE_FILE_REQUEST /\ ~req[s].short
               /\ req'[s].file_name # req[s].file_name) => received_packets[s] = 0
    ]_vars

\* C8 as amended: received_packets counts the chunks appended since it was
\* last 0, whatever file they name and whatever their packet numbers: each
\* appended chunk adds one, and the counter returns to 0 only when it then
\* equals the total_packets of that chunk, which is when the crc is
\* computed; no other step changes it.
C8_CountFollowsTotals ==
  [][\A s \in Sessions :
       /\ IF chunks_saved'[s] # chunks_saved[s]
            THEN received_packets'[s] =
                   IF received_packets[s] + 1 = req'[s].total_packets
                     THEN 0 ELSE received_packets[s] + 1
            ELSE received_packets'[s] = received_packets[s]
       /\ AnsweredType(s, "send_file_crc") =>
            (chunks_saved'[s] # chunks_saved[s] /\ received_packets'[s] = 0)
    ]_vars

\* C8: a packet numbered 1 was appended and the counter is 2
C8_Witness ==
  \E s \in Sessions :
    /\ req[s].code = SAVE_FILE_REQUEST /\ req[s].packet_number = 1
    /\ chunks_saved[s] = 2 /\ received_packets[s] = 2

\* C9: in a session that has a name, handling FILE_TRANSFER_FAILED ends
\* without an exception, the file of that name is not on disk afterwards,
\* and the account directory exists afterwards exactly when files remain
\* in it.
C9_FailedTransferCleansUp ==
  [][\A s \in Sessions :
       (Parsed(s, FILE_TRANSFER_FAILED) /\ name[s] # NoName) =>
         /\ pc'[s] # "crashed"
         /\ Path(name[s], req'[s].file_name) \notin DOMAIN disk'
         /\ (name[s] \in dirs') = (\E p \in DOMAIN disk' : p[1] = name[s])
    ]_vars

\* the final confirmations sent, over all sessions
Confirmations(log) ==
  UNION {{<<s, i>> : i \in {j \in DOMAIN log[s] : log[s][j].type = "send_final_confirmation"}}
           : s \in Sessions}

\* C10: a final confirmation is sent only in the step that persists a file
\* record, and a file record is persisted only in a step that sends one;
\* it is the first of its session and sets running to false; after it
\* nothing of the session changes, so that there are as many file records
\* as final confirmations, at most one per session.
C10_OneFinalConfirmation ==
  [][/\ \A s \in Sessions :
          /\ AnsweredType(s, "send_final_confirmation") =>
               /\ ~HasSent(s, "send_final_confirmation")
               /\ Len(files') = Len(files) + 1
               /\ ~running'[s] /\ pc'[s] = "closed"
          /\ HasSent(s, "send_final_confirmation") => Frozen(s)
     /\ files' # files => \E s \in Sessions : AnsweredType(s, "send_final_confirmation")
     /\ Len(files') = Cardinality(Confirmations(sent'))
    ]_vars

\* C10: a session was ended by its final confirmation, one file record is
\* stored, and the peer had more to send
C10_Witness ==
  \E s \in Sessions :
    /\ HasSent(s, "send_final_confirmation")
    /\ Len(files) = 1 /\ ~running[s] /\ quota[s] > 0

\* C11: for every request whose header was parsed and that is handed to a
\* handler, the payload the handler gets is as long as the payload_size of
\* its header, also when the transport delivers the payload in pieces.
C11_PayloadWhole ==
  [][\A s \in Sessions :
       (quota'[s] = quota[s] - 1 /\ req'[s].code # None) =>
         req'[s].payload_len = req'[s].payload_size
    ]_vars

\* session s met a transport fault in this step
Faulted(s) == quota'[s] = quota[s] - 1 /\ req'[s].code = None

\* C12: a transport fault (an empty read, a short header, a connection
\* error while reading) sets running to false and ends the loop, sends
\* nothing, runs no handler (name, aes_key and received_packets keep their
\* values, no chunk is saved) and leaves the account store and the disk as
\* they were; after it nothing of the session changes.
C12_TransportFaultSilent ==
  [][\A s \in Sessions :
       /\ Faulted(s) =>
            /\ ~running'[s] /\ pc'[s] = "closed"
            /\ sent'[s] = sent[s]
            /\ name'[s] = name[s] /\ aes_key'[s] = aes_key[s]
            /\ received_packets'[s] = received_packets[s]
            /\ chunks_saved'[s] = chunks_saved[s]
            /\ clients' = clients /\ files' = files
            /\ dirs' = dirs /\ disk' = disk
       /\ (req[s].code = None /\ pc[s] = "closed") => Frozen(s)
    ]_vars

\* C12: a session that had logged in and negotiated a key was ended by a
\* fault of the transport after a header was unpacked, having sent nothing
\* but the answer to the login, while its peer had more to send
C12_Witness ==
  \E s \in Sessions :
    /\ req[s].code = None /\ req[s].client_id # None
    /\ ~running[s] /\ pc[s] = "closed" /\ quota[s] > 0
    /\ name[s] # NoName /\ aes_key[s] # NoKey
    /\ Len(sent[s]) = 1 /\ sent[s][1].type = "success_login"

\* C13: handling a CRC_MISMATCH request sends nothing and changes no state:
\* running stays true, received_packets, name and aes_key keep their values,
\* the account store and the disk are as they were, and the loop reads the
\* next request.
C13_CrcMismatchGoesOn ==
  [][\A s \in Sessions :
       Parsed(s, CRC_MISMATCH) =>
         /\ sent'[s] = sent[s]
         /\ running'[s] /\ pc'[s] = "recv"
         /\ received_packets'[s] = received_packets[s]
         /\ name'[s] = name[s] /\ aes_key'[s] = aes_key[s]
         /\ clients' = clients /\ files' = files
         /\ dirs' = dirs /\ disk' = disk
    ]_vars

\* the concatenation of the plaintexts of the chunks of a run
RECURSIVE Joined(_)
Joined(run) == IF run = <<>> THEN <<>> ELSE Head(run).plain \o Joined(Tail(run))

\* the request parsed in this step by session s is a whole chunk request,
\* packet number n of a file whose packets 1..n-1, and nothing else, were
\* appended in order since received_packets was 0, the last of them by the
\* request before this one, in a session that has a name and a negotiated key
NextInOrder(s) ==
  /\ Parsed(s, SAVE_FILE_REQUEST)
  /\ req'[s].packet_number > 1 => req[s].code = SAVE_FILE_REQUEST
  /\ req'[s].payload_size = SubHeaderSize + ChunkSize
  /\ req'[s].file_name # UndecodableFile
  /\ name[s] # NoName /\ aes_key[s] # NoKey /\ aes_key[s] = agreed_key[s]
  /\ received_packets[s] = req'[s].packet_number - 1
  /\ Len(in_flight[s]) = req'[s].packet_number - 1
  /\ \A i \in DOMAIN in_flight[s] :
       /\ in_flight[s][i].file_name = req'[s].file_name
       /\ in_flight[s][i].packet_number = i
       /\ in_flight[s][i].total_packets = req'[s].total_packets

\* a call of the file system or of the checksum failed in this step of
\* session s: a general error that is not the one of a payload too short
\* to hold the sub-header
EnvironmentFault(s) ==
  AnsweredType(s, "general_error") /\ req'[s].payload_len >= SubHeaderSize

\* the content of the file after the last packet of an in-order run
Reassembled(s) ==
  Joined(in_flight[s]) \o rstrip(decrypt_data(aes_key[s], req'[s].data))

\* C14: when packets 1..N of a file are submitted in order, starting with
\* received_packets = 0 in a session with a negotiated key, then after
\* packet N the file on disk is the concatenation of the plaintexts of the
\* packets, trailing zero bytes stripped from packet N only, and the crc
\* report, sent after packet N and after no earlier packet, carries the
\* Checksum of that content (unless a file-system or checksum call fails).
C14_InOrderReassembly ==
  [][\A s \in Sessions :
       NextInOrder(s) =>
         \/ EnvironmentFault(s)
         \/ /\ req'[s].packet_number < req'[s].total_packets
            /\ sent'[s] = sent[s] /\ pc'[s] = "recv"
            /\ Path(name[s], req'[s].file_name) \in DOMAIN disk'
         \/ /\ req'[s].packet_number = req'[s].total_packets
            /\ Path(name[s], req'[s].file_name) \in DOMAIN disk'
            /\ disk'[Path(name[s], req'[s].file_name)] = Reassembled(s)
            /\ Answered(s, send_file_crc(client_id'[s], req'[s].content_size,
                                         req'[s].file_name, Checksum(Reassembled(s))))
    ]_vars

Persisted(s) == pc[s] = "add_aes_key" /\ pc'[s] = "get_aes_key"

Run(s) ==
  [i \in 1..(Len(in_flight[s]) + 1) |->
     IF i <= Len(in_flight[s])
       THEN <<in_flight[s][i].file_name, in_flight[s][i].packet_number>>
       ELSE <<req'[s].file_name, req'[s].packet_number>>]

\* C17: a crc report is sent for a file only when every packet
\* 1..total_packets of that file was appended exactly once since the file
\* was started.
C17_ReportOnlyWhenComplete ==
  [][\A s \in Sessions :
       AnsweredType(s, "send_file_crc") =>
         \A n \in 1..req'[s].total_packets :
           Cardinality({i \in DOMAIN Run(s) : Run(s)[i] = <<req'[s].file_name, n>>}) = 1
    ]_vars

\* the file of the in-order run that the request of this step belongs to
\* was on disk when the run started
Stale(s) ==
  IF in_flight[s] = <<>>
    THEN Path(name[s], req'[s].file_name) \in DOMAIN disk
    ELSE in_flight[s][1].stale

\* C18: when a transfer was completed (a crc report was sent) and, after a
\* CRC_MISMATCH, packets 1..N of a file that is on disk are sent again in
\* order, the stale file is deleted when packet 1 is appended, so that
\* after packet N the file holds exactly the content of the packets sent
\* again, and a second crc report is sent (unless a file-system or checksum
\* call fails).
C18_RestartIdempotent ==
  [][\A s \in Sessions :
       (/\ NextInOrder(s) /\ Stale(s) /\ HasSent(s, "send_file_crc")
        /\ req'[s].packet_number = 1 => req[s].code = CRC_MISMATCH
        /\ req'[s].packet_number = req'[s].total_packets) =>
         \/ EnvironmentFault(s)
         \/ /\ Path(name[s], req'[s].file_name) \in DOMAIN disk'
            /\ disk'[Path(name[s], req'[s].file_name)] = Reassembled(s)
            /\ AnsweredType(s, "send_file_crc")
            /\ Cardinality({i \in DOMAIN sent'[s] : sent'[s][i].type = "send_file_crc"}) >= 2
    ]_vars

\* C19: with sessions acting on one account at once, the wrapped key that
\* success_login or send_aes_key delivers is the wrapping of the aes_key of
\* the session that delivers it.
C19_DeliveredKeyIsSessionKey ==
  [][\A s \in Sessions :
       (AnsweredType(s, "success_login") \/ AnsweredType(s, "send_aes_key")) =>
         sent'[s][Len(sent'[s])].aes_key.key = aes_key[s]
    ]_vars

\* session s takes this step
Acts(s) == pc'[s] # pc[s] \/ quota'[s] # quota[s] \/ sent'[s] # sent[s]

\* session s registered or logged in as the account of client id c
Authenticated(s, c) ==
  /\ name[s] # NoName
  /\ c \in DOMAIN clients
  /\ name[s] = SubSeq(clients[c].name, 1, Len(clients[c].name) - 1)

\* C20: a session changes the public key or the wrapped key of an account,
\* or stores a file record under a client id, only for the account it
\* registered or logged in as.
C20_StoreWritesOnlyForOwnAccount ==
  [][\A s \in Sessions :
       Acts(s) =>
         /\ \A c \in DOMAIN clients :
              (clients'[c].public_key # clients[c].public_key
                 \/ clients'[c].aes_key # clients[c].aes_key) => Authenticated(s, c)
         /\ Len(files') > Len(files) => Authenticated(s, files'[Len(files')].client_id)
    ]_vars

====
